---- MODULE Spec2Model ----
(***************************************************************************)
(* Model of the action-selection engine (agent.py), the observation log    *)
(* and divergence ledger (data.py) and the trial driver (world.py) of      *)
(* ECS4TOMAE.                                                              *)
(*                                                                         *)
(* Python values are encoded as follows.                                   *)
(*   None            the empty tuple <<>>                                  *)
(*   a real number   an integer count of thousandths, wrapped <<n>> where  *)
(*                   the code may hold None in its place                   *)
(*   a dict          a function; insertion order, where the code iterates  *)
(*                   it, is kept in a separate sequence                    *)
(*   an exception    the name of its type in the variable  raised          *)
(***************************************************************************)
EXTENDS Integers, Sequences, FiniteSets, TLC

\* ------------------------------------------------------------------ bounds
MaxObs == 2
MaxRounds == 2
MaxRandTrials == 2
MaxCalls == 4
MaxLogLen == 4

\* ------------------------------------------------------- values and domains
None == <<>>
Some(x) == <<x>>
IsNone(v) == v = <<>>
Val(v) == v[1]

Abs(x) == IF x < 0 THEN -x ELSE x

\* One in thousandths: the unit in which divergences, thresholds and
\* probabilities are written.
Milli == 1000

Agents == {"a1", "a2", "a3"}

\* Simulation variables: Z is the feature (context), X the action, Y the reward.
act_var == "X"
rew_var == "Y"
feat_vars == {"Z"}
domains == [Z |-> {0, 1}, X |-> {0, 1}, Y |-> {0, 1}]
vars_of_bank == DOMAIN domains

Observation == [Z : domains.Z, X : domains.X, Y : domains.Y]

\* util.permutations(dom): every assignment of the Cartesian product of the
\* domains, in a fixed enumeration order.
act_perms == << [X |-> 0], [X |-> 1] >>
feat_perms_Z == << [Z |-> 0], [Z |-> 1] >>

SeqToSet(s) == {s[i] : i \in 1..Len(s)}

\* dict union {**a, **b}: b's entries win.
Merge(a, b) == [k \in (DOMAIN a) \cup (DOMAIN b) |-> IF k \in DOMAIN b THEN b[k] ELSE a[k]]

\* --------------------------------------------------------------- DataSet
\* DataSet.query
query(ds, query_dict) ==
  SelectSeq(ds, LAMBDA e : \A key \in DOMAIN query_dict : e[key] = query_dict[key])

RECURSIVE SumOf(_, _)
SumOf(ds, var) == IF ds = <<>> THEN 0 ELSE Head(ds)[var] + SumOf(Tail(ds), var)

\* mean with an empty log counted as a mean of 0.
mean_zero_when_empty(ds, var) == <<SumOf(ds, var), IF Len(ds) > 0 THEN Len(ds) ELSE 1>>

\* DataSet.mean: the rational sum/total as the pair <<sum, total>>, None on an
\* empty log.
mean(ds, var) == IF Len(ds) > 0 THEN <<SumOf(ds, var), Len(ds)>> ELSE None

\* Comparison of two defined means (Python float comparison of sum/total).
MeanGT(m, n) == m[1] * n[2] > n[1] * m[2]
MeanEQ(m, n) == m[1] * n[2] = n[1] * m[2]

\* DataSet.optimal_choice, the loop over permutations(act_dom) from position i:
\* the list of the best choices found, best_rew = None standing for -inf.
RECURSIVE BestFrom(_, _, _, _, _)
BestFrom(ds, givens, i, best_choice, best_rew) ==
  IF i > Len(act_perms) THEN best_choice
  ELSE LET choice == act_perms[i]
           expected_rew == mean(query(ds, Merge(choice, givens)), rew_var)
       IN  IF IsNone(expected_rew)
             THEN BestFrom(ds, givens, i + 1, best_choice, best_rew)
           ELSE IF IsNone(best_rew) \/ MeanGT(expected_rew, best_rew)
             THEN BestFrom(ds, givens, i + 1, <<choice>>, expected_rew)
           ELSE IF MeanEQ(expected_rew, best_rew)
             THEN BestFrom(ds, givens, i + 1, Append(best_choice, choice), best_rew)
           ELSE BestFrom(ds, givens, i + 1, best_choice, best_rew)

\* DataSet.optimal_choice: the set of values rng.choice may make it return;
\* None when best_choice is empty.
optimal_choice(ds, givens) ==
  LET best_choice == BestFrom(ds, givens, 1, <<>>, None)
  IN  IF best_choice # <<>> THEN {Some(c) : c \in SeqToSet(best_choice)} ELSE {None}

\* ---------------------------------------------------------------- DataBank
VARIABLES
  data,        \* DataBank.data: registered agent -> its log
  order,       \* insertion order of the keys of DataBank.data
  divergence   \* DataBank.divergence: agent -> agent -> node -> number or None

\* DataBank.get_non_act_nodes
get_non_act_nodes == {node \in vars_of_bank : node # act_var}

\* Agent.get_otp: the data-visibility policy (class) of each agent.
otp == [a1 |-> "Sensitive", a2 |-> "Naive", a3 |-> "Solo"]

\* The tolerance DataBank.div_nodes reads from P_agent, in thousandths.
div_node_conf == [a1 |-> 50, a2 |-> 1000, a3 |-> 200]

\* Natural logarithm of a small positive integer, in thousandths.
LnMilli(k) ==
  CASE k = 1 -> 0 [] k = 2 -> 693 [] k = 3 -> 1099 [] k = 4 -> 1386
    [] k = 5 -> 1609 [] k = 6 -> 1792 [] k = 7 -> 1946 [] k = 8 -> 2079

Count(ds, node, x) == Len(SelectSeq(ds, LAMBDA e : e[node] = x))

RECURSIVE SumOver(_, _)
SumOver(S, f) ==
  IF S = {} THEN 0 ELSE LET x == CHOOSE y \in S : TRUE IN f[x] + SumOver(S \ {x}, f)

\* util.kl_divergence for the distribution of one node: the Kullback-Leibler
\* divergence sum_x p(x) ln(p(x)/q(x)) of the two empirical distributions, in
\* thousandths; None when a side has no observation to estimate from, or gives
\* probability zero to a value the other side has seen.
kl_divergence(P_data, Q_data, node) ==
  LET n == Len(P_data)
      m == Len(Q_data)
      dom == domains[node]
  IN  IF n = 0 \/ m = 0 THEN None
      ELSE IF \E x \in dom : Count(P_data, node, x) > 0 /\ Count(Q_data, node, x) = 0
        THEN None
      ELSE LET term == [x \in dom |->
                 LET a == Count(P_data, node, x)
                     b == Count(Q_data, node, x)
                 IN  IF a = 0 THEN 0
                     ELSE a * (LnMilli(a) + LnMilli(m) - LnMilli(b) - LnMilli(n))]
           IN  Some(SumOver(dom, term) \div n)

\* add_agent_divergence with every new entry set to 0, self or not.
add_agent_divergence_all_zero(div, keys, new_agent) ==
  [P \in keys |->
    [Q \in (IF P = new_agent THEN keys ELSE (DOMAIN div[P]) \cup {new_agent}) |->
      IF P = new_agent \/ Q = new_agent
        THEN [node \in get_non_act_nodes |-> Some(0)]
        ELSE div[P][Q]]]

\* DataBank.add_agent, its effect on self.divergence.
add_agent_divergence(div, keys, new_agent) ==
  [P \in keys |->
    [Q \in (IF P = new_agent THEN keys ELSE (DOMAIN div[P]) \cup {new_agent}) |->
      IF P = new_agent \/ Q = new_agent
        THEN [node \in get_non_act_nodes |-> Some(IF P # Q THEN 1 * Milli ELSE 0)]
        ELSE div[P][Q]]]

\* update_divergence without the P_agent == Q_agent skip.
update_divergence_no_skip(dat, div) ==
  [P \in DOMAIN div |->
    [Q \in DOMAIN div[P] |->
      [node \in DOMAIN div[P][Q] |-> kl_divergence(dat[P], dat[Q], node)]]]

\* DataBank.update_divergence, the value of self.divergence it leaves.
update_divergence(dat, div) ==
  [P \in DOMAIN div |->
    [Q \in DOMAIN div[P] |->
      IF P \in DOMAIN dat /\ Q \in DOMAIN dat /\ P # Q
        THEN [node \in get_non_act_nodes |-> kl_divergence(dat[P], dat[Q], node)]
        ELSE div[P][Q]]]

\* div_nodes with an undefined divergence passing as small.
div_nodes_none_as_zero(div, P_agent, Q_agent) ==
  IF P_agent = Q_agent THEN {}
  ELSE {node \in DOMAIN div[P_agent][Q_agent] :
          LET d == div[P_agent][Q_agent][node]
          IN  ~IsNone(d) /\ Abs(Val(d)) > div_node_conf[P_agent]}

\* DataBank.div_nodes
div_nodes(div, P_agent, Q_agent) ==
  IF P_agent = Q_agent THEN {}
  ELSE {node \in DOMAIN div[P_agent][Q_agent] :
          LET d == div[P_agent][Q_agent][node]
          IN  IsNone(d) \/ Abs(Val(d)) > div_node_conf[P_agent]}

\* data.extend over the agents of ord taken in order, keeping those in keep.
RECURSIVE ExtendAll(_, _, _)
ExtendAll(dat, ord, keep) ==
  IF ord = <<>> THEN <<>>
  ELSE (IF Head(ord) \in keep THEN dat[Head(ord)] ELSE <<>>) \o ExtendAll(dat, Tail(ord), keep)

\* DataBank.all_data
all_data(dat, ord) == ExtendAll(dat, ord, SeqToSet(ord))

\* sensitive_data without the trust filter.
sensitive_data_unfiltered(dat, ord, div, P_agent) == ExtendAll(dat, ord, SeqToSet(ord))

\* DataBank.sensitive_data
sensitive_data(dat, ord, div, P_agent) ==
  ExtendAll(dat, ord, {Q_agent \in SeqToSet(ord) : Cardinality(div_nodes(div, P_agent, Q_agent)) = 0})

\* ------------------------------------------------------------------- Agent
\* Values rng.random() may return, in thousandths.
RandomDraws == {0, 990}

\* Values rng.beta(alpha + 1, beta + 1) may return, in thousandths.
BetaDraws == {250, 750}

\* Agent.epsilon under ASR.EG, in thousandths (sim.py: EG_epsilon = 100/3000).
EG_epsilon == 33

\* The cooling rates an agent is built with: the float 0.98 of sim.py and the
\* int 0 that Agent.__init__ defaults to.
CoolingRates == {[type |-> "float", milli |-> 980], [type |-> "int", milli |-> 0]}

Classes == {"Solo", "Naive", "Sensitive", "Adjust"}
ASRs == {"EG", "EF", "ED", "TS"}

\* list.index
Index(seq, x) == CHOOSE i \in 1..Len(seq) : seq[i] = x

\* Agent.choose_random: the values rng.choice(permutations(act_dom)) may return.
choose_random == {Some(c) : c \in SeqToSet(act_perms)}

\* optimal if optimal else self.choose_random()
OrRandom(optimal) == IF IsNone(optimal) THEN choose_random ELSE {optimal}

\* SoloAgent.choose_optimal
Solo_choose_optimal(dat, self, givens) ==
  UNION {OrRandom(optimal) : optimal \in optimal_choice(dat[self], givens)}

\* NaiveAgent.choose_optimal
Naive_choose_optimal(dat, self, givens) ==
  UNION {OrRandom(optimal) : optimal \in optimal_choice(dat[self], givens)}

\* SensitiveAgent.choose_optimal
Sensitive_choose_optimal(dat, ord, div, self, givens) ==
  UNION {OrRandom(optimal) :
           optimal \in optimal_choice(sensitive_data(dat, ord, div, self), givens)}

\* AdjustAgent.choose_optimal: the expected values are sums of products of
\* probabilities answered by the causal-query oracle, never negative, so with
\* max_val starting at 0 the list of choices is never empty; which actions it
\* holds is the oracle's say.
Adjust_choose_optimal == {Some(c) : c \in SeqToSet(act_perms)}

\* choose_optimal as dispatched on the agent's class.
choose_optimal(cls, dat, ord, div, self, givens) ==
  CASE cls = "Solo" -> Solo_choose_optimal(dat, self, givens)
    [] cls = "Naive" -> Naive_choose_optimal(dat, self, givens)
    [] cls = "Sensitive" -> Sensitive_choose_optimal(dat, ord, div, self, givens)
    [] cls = "Adjust" -> Adjust_choose_optimal

\* Agent.ts_from_dataset, the loop from position i; samples[i] is the value
\* rng.beta returns for the i-th action.
RECURSIVE ts_loop(_, _, _, _)
ts_loop(samples, i, choice, max_sample) ==
  IF i > Len(act_perms) THEN choice
  ELSE IF samples[i] > max_sample
    THEN ts_loop(samples, i + 1, Some(act_perms[i]), samples[i])
    ELSE ts_loop(samples, i + 1, choice, max_sample)

\* Agent.ts_from_dataset
ts_from_dataset(dataset, givens, samples) == ts_loop(samples, 1, None, 0)

\* AdjustAgent.thompson_sample, the loop from position i: the list choices.
RECURSIVE adjust_ts_loop(_, _, _, _)
adjust_ts_loop(samples, i, choices, max_sample) ==
  IF i > Len(act_perms) THEN choices
  ELSE LET improved == samples[i] > max_sample
           max2 == IF improved THEN samples[i] ELSE max_sample
           ch2 == IF improved THEN <<act_perms[i]>> ELSE choices
           ch3 == IF samples[i] = max2 THEN Append(ch2, act_perms[i]) ELSE ch2
       IN  adjust_ts_loop(samples, i + 1, ch3, max2)

\* thompson_sample as dispatched on the agent's class: the values it may return.
thompson_sample(cls, dat, ord, div, self, givens, samples) ==
  CASE cls = "Solo" -> {ts_from_dataset(dat[self], givens, samples)}
    [] cls = "Naive" -> {ts_from_dataset(all_data(dat, ord), givens, samples)}
    [] cls = "Sensitive" ->
         {ts_from_dataset(sensitive_data(dat, ord, div, self), givens, samples)}
    [] cls = "Adjust" ->
         {Some(c) : c \in SeqToSet(adjust_ts_loop(samples, 1, <<>>, 0))}

\* Agent.choose under ASR.EG with the coin u = rng.random().
choose_EG(cls, dat, ord, div, self, givens, u, eps) ==
  IF u < eps THEN choose_random ELSE choose_optimal(cls, dat, ord, div, self, givens)

\* ------------------------------------------------------------- the state
VARIABLES
  last,        \* the operation that produced the state, its arguments and result
  world,       \* the World object and the position of run_episode in its loop
  agent,       \* the Agent object whose choose() is exercised on its own
  banks        \* the DataBank objects constructed where several are compared

vars == <<data, order, divergence, last, world, agent, banks>>
ledger_vars == <<data, order, divergence>>

NoWorld == [agents |-> <<>>]
NoAgent == [name |-> "none"]
NoBanks == <<>>

TotalObs(dat) == SumOver(DOMAIN dat, [a \in DOMAIN dat |-> Len(dat[a])])

\* ------------------------------------------------------ ledger operations
\* DataBank.__init__ with no initial data.
DataBank_init ==
  /\ data = <<>>
  /\ order = <<>>
  /\ divergence = <<>>

\* DataBank.add_agent (called by Agent.__init__).
add_agent(new_agent) ==
  /\ IF new_agent \in DOMAIN data
       THEN UNCHANGED ledger_vars
       ELSE /\ data' = [a \in (DOMAIN data) \cup {new_agent} |->
                          IF a = new_agent THEN <<>> ELSE data[a]]
            /\ order' = Append(order, new_agent)
            /\ divergence' = add_agent_divergence(divergence, DOMAIN data', new_agent)
  /\ last' = [op |-> "add_agent", agent |-> new_agent, was_new |-> new_agent \notin DOMAIN data]
  /\ UNCHANGED <<world, agent, banks>>

\* DataBank.update_divergence called on its own.
refresh ==
  /\ order # <<>>
  /\ divergence' = update_divergence(data, divergence)
  /\ last' = [op |-> "update_divergence"]
  /\ UNCHANGED <<data, order, world, agent, banks>>

\* Agent.act: sample a context, choose, sample the outcome, append it to the
\* agent's own log.
act(self) ==
  /\ self \in DOMAIN data
  /\ \E givens \in SeqToSet(feat_perms_Z), u \in RandomDraws, y \in domains[rew_var] :
       \E choice \in choose_EG(otp[self], data, order, divergence, self, givens, u, EG_epsilon) :
         LET observation == Merge(Merge(givens, Val(choice)), [Y |-> y])
         IN  /\ data' = [data EXCEPT ![self] = Append(@, observation)]
             /\ last' = [op |-> "act"]
  /\ UNCHANGED <<order, divergence, world, agent, banks>>

Init ==
  /\ DataBank_init
  /\ last = [op |-> "init"]
  /\ banks = NoBanks
  /\ world = NoWorld
  /\ agent = NoAgent

Next ==
  \/ \E a \in Agents : add_agent(a)
  \/ refresh
  \/ \E a \in Agents : TotalObs(data) < MaxObs /\ act(a)

\* The ledger under any sequence of registrations, refreshes and trials.
Spec == Init /\ [][Next]_vars

\* ---------------------------------------------------- one observation log
\* A ledger holding the Solo agent alone.
InitLog ==
  /\ data = [a \in {"a3"} |-> <<>>]
  /\ order = <<"a3">>
  /\ divergence = add_agent_divergence(<<>>, {"a3"}, "a3")
  /\ last = [op |-> "init"]
  /\ banks = NoBanks
  /\ world = NoWorld
  /\ agent = NoAgent

NextLog == Len(data["a3"]) < MaxLogLen /\ act("a3")

\* One agent filling its own log, trial after trial.
SpecLog == InitLog /\ [][NextLog]_vars

\* ------------------------------------------------------------------ World
\* The agent lists a World is built with; the agents were constructed, and so
\* registered in the ledger, in the same order.
Lineups == {<<"a1", "a2">>, <<"a2", "a1">>, <<"a2", "a3">>, <<"a1">>}

\* The divergence matrix after add_agent of each agent of lineup in turn.
RECURSIVE RegisterAll(_, _)
RegisterAll(lineup, n) ==
  IF n = 0 THEN <<>>
  ELSE add_agent_divergence(RegisterAll(lineup, n - 1),
                            {lineup[i] : i \in 1..n}, lineup[n])

\* World.__init__: has_sensitive
has_sensitive(agents) ==
  \E i \in 1..Len(agents) : otp[agents[i]] \in {"Sensitive", "Adjust"}

\* Agent.update_divergence as World.run_episode calls it: the refresh of the
\* shared ledger.
Agent_update_divergence(dat, div) == update_divergence(dat, div)

\* Agent.observe as World.run_episode calls it: the sample joins the agent's
\* own log.
Agent_observe(dat, a, sample) == [dat EXCEPT ![a] = Append(@, sample)]

\* World.__init__ over freshly constructed agents. world.pos is the index in
\* world.agents of the agent the loop of run_episode takes next, world.ep the
\* number of episodes completed; round_start is the logs as the previous
\* episode left them, refreshes the number of refreshes and seen the
\* divergence matrices read by the decisions of the episode under way.
InitWorld ==
  \E lineup \in Lineups :
    /\ data = [a \in SeqToSet(lineup) |-> <<>>]
    /\ order = lineup
    /\ divergence = RegisterAll(lineup, Len(lineup))
    /\ last = [op |-> "init"]
    /\ banks = NoBanks
    /\ world = [agents |-> lineup, ep |-> 0, pos |-> 1,
                round_start |-> data, refreshes |-> 0, seen |-> <<>>]
    /\ agent = NoAgent

\* World.run_episode, one iteration of its loop over self.agents: refresh,
\* sample the context, choose, sample the outcome, observe.
run_episode_agent ==
  /\ world.agents # <<>>
  /\ world.ep < MaxRounds
  /\ world.pos <= Len(world.agents)
  /\ LET a == world.agents[world.pos]
         sens == has_sensitive(world.agents)
         div == IF sens THEN Agent_update_divergence(data, divergence) ELSE divergence
     IN  /\ divergence' = div
         /\ \E context \in SeqToSet(feat_perms_Z), u \in RandomDraws, y \in domains[rew_var] :
              \E action \in choose_EG(otp[a], data, order, div, a, context, u, EG_epsilon) :
                LET sample == Merge(Merge(context, Val(action)), [Y |-> y])
                IN  data' = Agent_observe(data, a, sample)
         /\ world' = [world EXCEPT !.pos = @ + 1,
                                   !.refreshes = IF sens THEN @ + 1 ELSE @,
                                   !.seen = Append(@, div)]
         /\ last' = [op |-> "run_episode", agent |-> a]
  /\ UNCHANGED <<order, agent, banks>>

\* World.run_episode, after its loop: self.update(ep) and the return. The
\* regret bookkeeping of update reads the logs and writes only cpr and poa.
run_episode_end ==
  /\ world.agents # <<>>
  /\ world.ep < MaxRounds
  /\ world.pos > Len(world.agents)
  /\ world' = [world EXCEPT !.ep = @ + 1, !.pos = 1, !.round_start = data,
                            !.refreshes = 0, !.seen = <<>>]
  /\ last' = [op |-> "update", ep |-> world.ep]
  /\ UNCHANGED <<data, order, divergence, agent, banks>>

NextWorld == run_episode_agent \/ run_episode_end

\* A World running its episodes.
SpecWorld == InitWorld /\ [][NextWorld]_vars

\* ----------------------------------------------------------- Agent.choose
\* The logs of the ledger the deciding agent is registered in: its own log
\* and the log of one peer.
LogPairs ==
  { << <<>>, << [Z |-> 0, X |-> 0, Y |-> 1] >> >>,
    << << [Z |-> 0, X |-> 1, Y |-> 1], [Z |-> 1, X |-> 0, Y |-> 0] >>,
       << [Z |-> 0, X |-> 0, Y |-> 1], [Z |-> 1, X |-> 1, Y |-> 1] >> >> }

\* The constructor arguments tried for each rule: (epsilon, rand_trials,
\* cooling_rate); an argument a rule does not read keeps its default.
DefaultCooling == [type |-> "int", milli |-> 0]
RuleArgs(rule) ==
  CASE rule = "EG" -> {<<e, 0, DefaultCooling>> : e \in {0, EG_epsilon}}
    [] rule = "EF" -> {<<0, k, DefaultCooling>> : k \in 0..MaxRandTrials}
    [] rule = "ED" -> {<<0, 0, c>> : c \in CoolingRates}
    [] rule = "TS" -> {<<0, 0, DefaultCooling>>}

\* Agent.__init__: the exploration state of the new agent. calls counts, per
\* context (per agent when there are no features), the calls of choose.
Agent_init(name, cls, rule, feats, eps, rand_trials, cooling_rate) ==
  [name |-> name, cls |-> cls, asr |-> rule, feat_perms |-> feats,
   epsilon |-> IF rule = "ED" THEN [i \in 1..Len(feats) |-> 1 * Milli] ELSE eps,
   rand_trials |-> rand_trials,
   rand_trials_rem |-> IF feats # <<>> THEN [i \in 1..Len(feats) |-> rand_trials]
                                       ELSE rand_trials,
   cooling_rate |-> cooling_rate,
   calls |-> [i \in 1..(IF feats # <<>> THEN Len(feats) ELSE 1) |-> 0]]

InitChoose ==
  \E logs \in LogPairs, cls \in Classes, rule \in ASRs, feats \in {<<>>, feat_perms_Z} :
    \E args \in RuleArgs(rule) :
      /\ data = [a \in {"a1", "a2"} |-> IF a = "a1" THEN logs[1] ELSE logs[2]]
      /\ order = <<"a1", "a2">>
      /\ divergence = update_divergence(data, RegisterAll(order, 2))
      /\ agent = Agent_init("a1", cls, rule, feats, args[1], args[2], args[3])
      /\ last = [op |-> "init"]
      /\ banks = NoBanks
      /\ world = NoWorld

\* The position of the context in calls.
Ctx(givens) == IF agent.feat_perms # <<>> THEN Index(agent.feat_perms, givens) ELSE 1

\* A call of choose in a run no exception has ended: the exploration state it
\* leaves, and what it returned (kind names the return statement taken) or
\* raised. draws is the number of calls of self.rng.random() the call made, ts
\* what thompson_sample computed (None under the other rules).
Returns(givens, eps, rem, kind, value, raised, draws, ts) ==
  /\ last.op = "choose" => last.raised = "none"
  /\ agent.calls[Ctx(givens)] < MaxCalls
  /\ UNCHANGED <<data, order, divergence, world, banks>>
  /\ agent' = [agent EXCEPT !.calls[Ctx(givens)] = @ + 1,
                            !.epsilon = eps, !.rand_trials_rem = rem]
  /\ last' = [op |-> "choose", ctx |-> Ctx(givens), kind |-> kind,
              value |-> value, raised |-> raised, draws |-> draws, ts |-> ts]

\* self.choose_optimal(givens) of the deciding agent.
self_choose_optimal(givens) ==
  choose_optimal(agent.cls, data, order, divergence, agent.name, givens)

\* Agent.choose, ASR.EG
choose_rule_EG(givens) ==
  /\ agent.asr = "EG"
  /\ \E u \in RandomDraws :
       IF u < agent.epsilon
         THEN \E c \in choose_random :
                Returns(givens, agent.epsilon, agent.rand_trials_rem, "random", c, "none", 1, None)
         ELSE \E c \in self_choose_optimal(givens) :
                Returns(givens, agent.epsilon, agent.rand_trials_rem, "optimal", c, "none", 1, None)

\* rand_trials_rem[given_i] -= 1 with the first countdown taken for every context.
EF_decrement_first(rem, given_i) == [rem EXCEPT ![1] = @ - 1]

\* self.rand_trials_rem[given_i] -= 1
EF_decrement(rem, given_i) == [rem EXCEPT ![given_i] = @ - 1]

\* Agent.choose, ASR.EF
choose_rule_EF(givens) ==
  /\ agent.asr = "EF"
  /\ IF agent.feat_perms # <<>>
       THEN LET given_i == Index(agent.feat_perms, givens)
            IN  IF agent.rand_trials_rem[given_i] > 0
                  THEN \E c \in choose_random :
                         Returns(givens, agent.epsilon,
                                 EF_decrement(agent.rand_trials_rem, given_i),
                                 "random", c, "none", 0, None)
                  ELSE \E c \in self_choose_optimal(givens) :
                         Returns(givens, agent.epsilon, agent.rand_trials_rem,
                                 "optimal", c, "none", 0, None)
       ELSE IF agent.rand_trials_rem > 0
              THEN \E c \in choose_random :
                     Returns(givens, agent.epsilon, agent.rand_trials_rem - 1,
                             "random", c, "none", 0, None)
              ELSE \E c \in self_choose_optimal(givens) :
                     Returns(givens, agent.epsilon, agent.rand_trials_rem,
                             "optimal", c, "none", 0, None)

\* x *= self.cooling_rate for a number x in thousandths.
Decay(x, cooling_rate) == (x * cooling_rate.milli) \div Milli

\* Agent.choose, ASR.ED. self.epsilon is the list Agent.__init__ built. With
\* features, a draw below epsilon[given_i] decays that entry and explores;
\* otherwise control reaches  self.epsilon *= self.cooling_rate  on the list
\* (a TypeError for a float rate, the list repeated 0 times for the int 0) and
\* the method ends without a return statement. Without features the draw is
\* compared with the list itself.
choose_rule_ED(givens) ==
  /\ agent.asr = "ED"
  /\ IF agent.feat_perms # <<>>
       THEN LET given_i == Index(agent.feat_perms, givens)
            IN  IF given_i > Len(agent.epsilon)
                  THEN Returns(givens, agent.epsilon, agent.rand_trials_rem,
                               "none", None, "IndexError", 1, None)
                  ELSE \E u \in RandomDraws :
                         IF u < agent.epsilon[given_i]
                           THEN \E c \in choose_random :
                                  Returns(givens,
                                          [agent.epsilon EXCEPT ![given_i] =
                                             Decay(@, agent.cooling_rate)],
                                          agent.rand_trials_rem, "random", c, "none", 1, None)
                           ELSE IF agent.cooling_rate.type = "float"
                                  THEN Returns(givens, agent.epsilon, agent.rand_trials_rem,
                                               "none", None, "TypeError", 1, None)
                                  ELSE Returns(givens, <<>>, agent.rand_trials_rem,
                                               "none", None, "none", 1, None)
       ELSE Returns(givens, agent.epsilon, agent.rand_trials_rem,
                    "none", None, "TypeError", 1, None)

\* What the loop of thompson_sample holds when it ends, as the list its return
\* value is taken from: the list choices of AdjustAgent.thompson_sample, the
\* one variable choice of ts_from_dataset.
ts_held(cls, dat, ord, div, self, givens, samples) ==
  IF cls = "Adjust" THEN adjust_ts_loop(samples, 1, <<>>, 0)
  ELSE LET held == thompson_sample(cls, dat, ord, div, self, givens, samples)
       IN  IF held = {None} THEN <<>> ELSE <<Val(CHOOSE c \in held : TRUE)>>

\* Agent.choose, ASR.TS
choose_rule_TS(givens) ==
  /\ agent.asr = "TS"
  /\ \E samples \in [1..Len(act_perms) -> BetaDraws] :
       \E c \in thompson_sample(agent.cls, data, order, divergence, agent.name,
                                givens, samples) :
         Returns(givens, agent.epsilon, agent.rand_trials_rem, "thompson", c, "none", 0,
                 Some([samples |-> samples,
                       choices |-> ts_held(agent.cls, data, order, divergence,
                                           agent.name, givens, samples)]))

\* Agent.choose, dispatching on self.asr.
choose(givens) ==
  \/ choose_rule_EG(givens)
  \/ choose_rule_EF(givens)
  \/ choose_rule_ED(givens)
  \/ choose_rule_TS(givens)

\* The contexts the driver may sample for the agent: the feature assignments,
\* or the empty dict when there are no features.
GivensOf(feats) == IF feats # <<>> THEN SeqToSet(feats) ELSE {<<>>}

NextChoose ==
  \/ \E givens \in GivensOf(agent.feat_perms) : choose_rule_EG(givens)
  \/ \E givens \in GivensOf(agent.feat_perms) : choose_rule_EF(givens)
  \/ \E givens \in GivensOf(agent.feat_perms) : choose_rule_ED(givens)
  \/ \E givens \in GivensOf(agent.feat_perms) : choose_rule_TS(givens)

\* One agent deciding, context after context.
SpecChoose == InitChoose /\ [][NextChoose]_vars

\* ------------------------------------------- AdjustAgent and Query.solve
\* Query(q, e): the question P(var = val | given = gval).
Query(var, val, given, gval) == [var |-> var, val |-> val, given |-> given, gval |-> gval]

\* The queries get_expected_value and thompson_sample build along the chain
\* X -> S -> R -> Y.
Queries ==
  {Query("Y", y, "R", r) : y \in {0, 1}, r \in {0, 1}}
    \cup {Query("R", r, "S", s) : r \in {0, 1}, s \in {0, 1}}
    \cup {Query("S", s, act_var, x) : s \in {0, 1}, x \in domains[act_var]}

\* What Query.solve may answer: a probability in thousandths, or None.
Answers == {None, Some(500)}

\* The product of three probabilities, in thousandths.
Prod3(a, b, c) == (a * b * c) \div (Milli * Milli)

\* The pairs (s, r) of the nested loops  for s in (0, 1): for r in (0, 1).
SR == {0, 1} \X {0, 1}

\* AdjustAgent.get_expected_value; solve[q] is what Query.solve answers to q
\* over the pooled data of the node.
get_expected_value(solve, action) ==
  SumOver(SR, [sr \in SR |->
    LET y_prob == solve[Query("Y", 1, "R", sr[2])]
        r_prob == solve[Query("R", sr[2], "S", sr[1])]
        s_prob == solve[Query("S", sr[1], act_var, action[act_var])]
    IN  IF IsNone(y_prob) \/ IsNone(r_prob) \/ IsNone(s_prob) THEN 0
        ELSE Prod3(Val(y_prob), Val(r_prob), Val(s_prob))])

\* AdjustAgent.choose_optimal, the loop from position i over the expected
\* values ev: the list choices.
RECURSIVE adjust_opt_loop(_, _, _, _)
adjust_opt_loop(ev, i, choices, max_val) ==
  IF i > Len(act_perms) THEN choices
  ELSE IF ev[i] > max_val
    THEN adjust_opt_loop(ev, i + 1, <<act_perms[i]>>, ev[i])
  ELSE IF ev[i] = max_val
    THEN adjust_opt_loop(ev, i + 1, Append(choices, act_perms[i]), max_val)
  ELSE adjust_opt_loop(ev, i + 1, choices, max_val)

\* AdjustAgent.thompson_sample, the body of  for r in (0, 1)  for one action:
\* it raises when the three tested answers are known and beta_y_prob is None,
\* None * r_prob being a TypeError.
ts_term_raises(solve, action, sr) ==
  /\ ~IsNone(solve[Query("Y", 1, "R", sr[2])])
  /\ ~IsNone(solve[Query("R", sr[2], "S", sr[1])])
  /\ ~IsNone(solve[Query("S", sr[1], act_var, action[act_var])])
  /\ IsNone(solve[Query("Y", 0, "R", sr[2])])

\* summA (y = 1) or summB (y = 0) after the nested loops, none of whose
\* iterations raised.
ts_summ(solve, action, y) ==
  SumOver(SR, [sr \in SR |->
    LET alpha_y_prob == solve[Query("Y", 1, "R", sr[2])]
        y_prob == solve[Query("Y", y, "R", sr[2])]
        r_prob == solve[Query("R", sr[2], "S", sr[1])]
        s_prob == solve[Query("S", sr[1], act_var, action[act_var])]
    IN  IF IsNone(alpha_y_prob) \/ IsNone(r_prob) \/ IsNone(s_prob) THEN 0
        ELSE Prod3(Val(y_prob), Val(r_prob), Val(s_prob))])

\* DataSet.num: the number of observations of the log consistent with the
\* assignment.
num(ds, query_dict) == Len(query(ds, query_dict))

\* alpha (y = 1) or beta (y = 0) of thompson_sample for one action, summed
\* over the agents of the ledger whose causal path is not wholly corrupted.
ts_weight(solve, dat, contributing, action, givens, y) ==
  SumOver(contributing, [a \in contributing |->
    ts_summ(solve, action, y) * num(dat[a], Merge(action, givens))])

\* An AdjustAgent registered with one peer, each holding two observations,
\* and the answers of Query.solve over that ledger.
InitOracle ==
  \E solve \in [Queries -> Answers] :
    /\ data = [a \in {"a1", "a2"} |->
                IF a = "a1" THEN << [Z |-> 0, X |-> 1, Y |-> 1], [Z |-> 1, X |-> 0, Y |-> 0] >>
                            ELSE << [Z |-> 0, X |-> 0, Y |-> 1], [Z |-> 1, X |-> 1, Y |-> 1] >>]
    /\ order = <<"a1", "a2">>
    /\ divergence = update_divergence(data, RegisterAll(order, 2))
    /\ agent = Merge(Agent_init("a1", "Adjust", "TS", feat_perms_Z, 0, 0, DefaultCooling),
                     [solve |-> solve])
    /\ last = [op |-> "init"]
    /\ banks = NoBanks
    /\ world = NoWorld

\* AdjustAgent.choose_optimal
Adjust_choose_optimal_call ==
  \E givens \in GivensOf(agent.feat_perms) :
    LET ev == [i \in 1..Len(act_perms) |-> get_expected_value(agent.solve, act_perms[i])]
        choices == adjust_opt_loop(ev, 1, <<>>, 0)
    IN  /\ \E c \in SeqToSet(choices) :
             last' = [op |-> "choose_optimal", givens |-> givens, ev |-> ev,
                      value |-> Some(c), raised |-> "none"]
        /\ UNCHANGED <<data, order, divergence, world, agent, banks>>

\* AdjustAgent.thompson_sample. corrupted is the set of peers for which
\* all_causal_path_nodes_corrupted holds; the agent itself, never divergent
\* from itself, always contributes.
Adjust_thompson_sample_call ==
  \E givens \in GivensOf(agent.feat_perms), corrupted \in SUBSET (DOMAIN data \ {agent.name}) :
    LET contributing == DOMAIN data \ corrupted
        weights == [i \in 1..Len(act_perms) |->
                     [alpha |-> ts_weight(agent.solve, data, contributing, act_perms[i], givens, 1),
                      beta |-> ts_weight(agent.solve, data, contributing, act_perms[i], givens, 0)]]
    IN  /\ IF \E i \in 1..Len(act_perms), sr \in SR : ts_term_raises(agent.solve, act_perms[i], sr)
             THEN last' = [op |-> "thompson_sample", givens |-> givens,
                           corrupted |-> corrupted, weights |-> <<>>,
                           value |-> None, raised |-> "TypeError"]
             ELSE \E samples \in [1..Len(act_perms) -> BetaDraws] :
                    \E c \in SeqToSet(adjust_ts_loop(samples, 1, <<>>, 0)) :
                      last' = [op |-> "thompson_sample", givens |-> givens,
                               corrupted |-> corrupted, weights |-> weights,
                               value |-> Some(c), raised |-> "none"]
        /\ UNCHANGED <<data, order, divergence, world, agent, banks>>

NextOracle ==
  \/ Adjust_choose_optimal_call
  \/ Adjust_thompson_sample_call

\* An AdjustAgent deciding over every table of oracle answers.
SpecOracle == InitOracle /\ [][NextOracle]_vars

\* ----------------------------------------------------- Agent construction
\* A value of asr that is none of the members of ASR.
UnknownASR == "XX"

\* The constructor arguments tried for a rule, known or not.
ConstructArgs(rule) ==
  IF rule \in ASRs THEN RuleArgs(rule) ELSE {<<0, 0, DefaultCooling>>}

\* No agent constructed yet, over an empty ledger.
InitConstruct ==
  /\ DataBank_init
  /\ last = [op |-> "init"]
  /\ banks = NoBanks
  /\ world = NoWorld
  /\ agent = NoAgent

\* Agent.__init__ of an agent of class otp[name]: the fields are set, asr as
\* given, and the last statement registers the agent in the ledger.
Agent_construct ==
  /\ last.op = "choose" => last.raised = "none"
  /\ \E name \in Agents \ DOMAIN data, rule \in ASRs \cup {UnknownASR},
        feats \in {<<>>, feat_perms_Z} :
       \E args \in ConstructArgs(rule) :
         /\ agent' = Agent_init(name, otp[name], rule, feats, args[1], args[2], args[3])
         /\ data' = [a \in (DOMAIN data) \cup {name} |-> IF a = name THEN <<>> ELSE data[a]]
         /\ order' = Append(order, name)
         /\ divergence' = add_agent_divergence(divergence, DOMAIN data', name)
         /\ last' = [op |-> "Agent.__init__", agent |-> name, asr |-> rule, raised |-> "none"]
  /\ UNCHANGED <<world, banks>>

\* Agent.choose when self.asr is none of the four rules: the else branch.
choose_rule_unknown(givens) ==
  /\ agent.asr \notin ASRs
  /\ Returns(givens, agent.epsilon, agent.rand_trials_rem, "none", None, "ValueError", 0, None)

\* Agent.choose of the agent constructed last, for a context the driver
\* samples.
NextConstruct ==
  \/ Agent_construct
  \/ agent.name # "none" /\ \E givens \in GivensOf(agent.feat_perms) : choose_rule_EG(givens)
  \/ agent.name # "none" /\ \E givens \in GivensOf(agent.feat_perms) : choose_rule_EF(givens)
  \/ agent.name # "none" /\ \E givens \in GivensOf(agent.feat_perms) : choose_rule_ED(givens)
  \/ agent.name # "none" /\ \E givens \in GivensOf(agent.feat_perms) : choose_rule_TS(givens)
  \/ agent.name # "none" /\ \E givens \in GivensOf(agent.feat_perms) : choose_rule_unknown(givens)

\* Agents constructed one after another, the latest deciding.
SpecConstruct == InitConstruct /\ [][NextConstruct]_vars

\* ------------------------------------------------------- several ledgers
\* DataBank.__init__(domains, act_var, rew_var, data={}, divergence={}): the
\* two default dicts are built once, when the def statement runs, and every
\* call that omits the arguments binds self.data and self.divergence to those
\* same two objects. Here data, order and divergence are those two objects; a
\* DataBank built with its own fresh dicts keeps them in its record of banks.
MaxBanks == 2
MaxBankObs == 1

\* The observations an agent may append.
BankObservations == {[Z |-> 0, X |-> 0, Y |-> 1], [Z |-> 1, X |-> 1, Y |-> 0]}

\* self.data (with the order of its keys) and self.divergence of the k-th
\* DataBank.
bank_dicts(k) ==
  IF banks[k].shared
    THEN [data |-> data, order |-> order, divergence |-> divergence]
    ELSE [data |-> banks[k].data, order |-> banks[k].order, divergence |-> banks[k].divergence]

\* The dicts d after DataBank.add_agent(new_agent).
dicts_add_agent(d, new_agent) ==
  IF new_agent \in DOMAIN d.data THEN d
  ELSE LET keys == (DOMAIN d.data) \cup {new_agent}
       IN  [data |-> [a \in keys |-> IF a = new_agent THEN <<>> ELSE d.data[a]],
            order |-> Append(d.order, new_agent),
            divergence |-> add_agent_divergence(d.divergence, keys, new_agent)]

\* The dicts d after self.databank[self].append(observation).
dicts_append(d, a, observation) ==
  [d EXCEPT !.data = [@ EXCEPT ![a] = Append(@, observation)]]

\* The k-th DataBank's dicts become d: the write lands in the objects the
\* DataBank refers to.
bank_write(k, d) ==
  IF banks[k].shared
    THEN /\ data' = d.data /\ order' = d.order /\ divergence' = d.divergence
         /\ UNCHANGED banks
    ELSE /\ banks' = [banks EXCEPT ![k] = [shared |-> FALSE, data |-> d.data,
                                           order |-> d.order, divergence |-> d.divergence]]
         /\ UNCHANGED <<data, order, divergence>>

\* The observations held by all the dicts of the process.
BankObs ==
  TotalObs(data)
    + SumOver({k \in 1..Len(banks) : ~banks[k].shared},
              [k \in 1..Len(banks) |-> IF banks[k].shared THEN 0 ELSE TotalObs(banks[k].data)])

\* The process before any DataBank is constructed: the default dicts are empty.
InitBanks ==
  /\ data = <<>>
  /\ order = <<>>
  /\ divergence = <<>>
  /\ banks = NoBanks
  /\ last = [op |-> "init"]
  /\ world = NoWorld
  /\ agent = NoAgent

\* DataBank(domains, act_var, rew_var): the defaults are taken; the loop over
\* self.data calls add_agent for keys already there, which returns at once.
DataBank_construct_default ==
  /\ Len(banks) < MaxBanks
  /\ banks' = Append(banks, [shared |-> TRUE])
  /\ last' = [op |-> "DataBank.__init__", bank |-> Len(banks) + 1, explicit |-> FALSE]
  /\ UNCHANGED <<data, order, divergence, world, agent>>

\* DataBank(domains, act_var, rew_var, data={}, divergence={}) with dicts the
\* caller has just built.
DataBank_construct_explicit ==
  /\ Len(banks) < MaxBanks
  /\ banks' = Append(banks, [shared |-> FALSE, data |-> <<>>, order |-> <<>>,
                             divergence |-> <<>>])
  /\ last' = [op |-> "DataBank.__init__", bank |-> Len(banks) + 1, explicit |-> TRUE]
  /\ UNCHANGED <<data, order, divergence, world, agent>>

\* DataBank.add_agent on the k-th DataBank.
bank_add_agent ==
  \E k \in 1..Len(banks), new_agent \in Agents :
    /\ bank_write(k, dicts_add_agent(bank_dicts(k), new_agent))
    /\ last' = [op |-> "DataBank.add_agent", bank |-> k, agent |-> new_agent]
    /\ UNCHANGED <<world, agent>>

\* Agent.act, its last statement, for an agent registered in the k-th DataBank.
bank_append ==
  \E k \in 1..Len(banks) :
    \E a \in DOMAIN bank_dicts(k).data, observation \in BankObservations :
      /\ BankObs < MaxBankObs
      /\ bank_write(k, dicts_append(bank_dicts(k), a, observation))
      /\ last' = [op |-> "append", bank |-> k, agent |-> a]
      /\ UNCHANGED <<world, agent>>

NextBanks ==
  \/ DataBank_construct_default
  \/ DataBank_construct_explicit
  \/ bank_add_agent
  \/ bank_append

\* Several DataBank objects in one process.
SpecBanks == InitBanks /\ [][NextBanks]_vars

\* ------------------------------------------------------------------ claims
Registered == DOMAIN data

CountObs(ds, o) == Len(SelectSeq(ds, LAMBDA e : e = o))

\* C2: right after add_agent(B) of an agent B that was not registered, B's log
\* is empty, divergence[B][B][v] = 0, and for every agent A registered before
\* and every non-action node v, divergence[A][B][v] = divergence[B][A][v] = 1
\* while divergence[A][A][v] is still 0.
C2_NewAgentFullyUntrusted ==
  (last.op = "add_agent" /\ last.was_new) =>
    LET B == last.agent
    IN  /\ data[B] = <<>>
        /\ \A A \in Registered :
             /\ DOMAIN divergence[A][B] = get_non_act_nodes
             /\ DOMAIN divergence[B][A] = get_non_act_nodes
             /\ \A v \in get_non_act_nodes :
                  /\ divergence[A][A][v] = Some(0)
                  /\ A # B => /\ divergence[A][B][v] = Some(1 * Milli)
                              /\ divergence[B][A][v] = Some(1 * Milli)

\* C2 witness: a third agent joins two agents that already hold observations
\* and whose mutual divergence has been refreshed.
C2_Witness ==
  /\ last.op = "add_agent" /\ last.was_new
  /\ Cardinality(Registered) = 3
  /\ \E A \in Registered, A2 \in Registered :
       /\ A # A2 /\ A # last.agent /\ A2 # last.agent
       /\ data[A] # <<>> /\ data[A2] # <<>>
       /\ \E v \in get_non_act_nodes : divergence[A][A2][v] = Some(0)

\* Q is trusted by P: every non-action node has a defined divergence of P
\* toward Q within P's tolerance.
Trusted(P, Q) ==
  \/ P = Q
  \/ \A v \in get_non_act_nodes :
       /\ ~IsNone(divergence[P][Q][v])
       /\ Val(divergence[P][Q][v]) <= div_node_conf[P]

C5_NeverSelfDivergent ==
  \A A \in Registered :
    /\ \A v \in get_non_act_nodes : divergence[A][A][v] = Some(0)
    /\ div_nodes(divergence, A, A) = {}

\* C5 witness: a refresh has run over two agents, one with an empty log.
C5_Witness ==
  /\ last.op = "update_divergence"
  /\ \E A \in Registered, B \in Registered : A # B /\ data[A] = <<>> /\ data[B] # <<>>

\* C10: the optimal-action decision of a Community (Naive) agent is the one
\* the pool of all logs supports: whenever all_data() supports some action
\* for a context, choose_optimal returns only optimal choices of all_data().
C10_CommunityOptimalUsesPool ==
  \A a \in Registered :
    otp[a] = "Naive" =>
      \A givens \in SeqToSet(feat_perms_Z) :
        LET pool == optimal_choice(all_data(data, order), givens)
        IN  pool # {None} => Naive_choose_optimal(data, a, givens) \subseteq pool

\* The givens optimal_choice is called with: a feature assignment, or the
\* empty dict.
Contexts == {<<>>} \cup SeqToSet(feat_perms_Z)

\* The observations of ds that support action c under givens.
Support(ds, c, givens) ==
  SelectSeq(ds, LAMBDA e : e[act_var] = c[act_var] /\ \A k \in DOMAIN givens : e[k] = givens[k])

RewardSum(ds) == SumOver(1..Len(ds), [i \in 1..Len(ds) |-> ds[i][rew_var]])

\* The supported actions whose mean reward no supported action exceeds.
MaximalSupported(ds, givens) ==
  LET acts == SeqToSet(act_perms)
      sup == {c \in acts : Len(Support(ds, c, givens)) > 0}
  IN  {c \in sup : \A d \in sup :
         RewardSum(Support(ds, c, givens)) * Len(Support(ds, d, givens))
           >= RewardSum(Support(ds, d, givens)) * Len(Support(ds, c, givens))}

\* C9: optimal_choice returns None exactly when no action has a supporting
\* observation; otherwise it may return each supported action of maximal
\* mean reward and no other action.
C9_OptimalChoice ==
  \A givens \in Contexts :
    LET ds == data["a3"]
        returned == optimal_choice(ds, givens)
        best == MaximalSupported(ds, givens)
    IN  /\ (returned = {None}) <=> (best = {})
        /\ best # {} => returned = {Some(c) : c \in best}

\* C9 witness: a trial has been logged; for one context both actions have
\* support and the one with fewer samples has the strictly higher mean and is
\* the only value returned; for another context nothing has support.
C9_Witness ==
  /\ last.op = "act"
  /\ \E g \in Contexts, c \in SeqToSet(act_perms), d \in SeqToSet(act_perms) :
       /\ Len(Support(data["a3"], d, g)) > Len(Support(data["a3"], c, g))
       /\ Len(Support(data["a3"], c, g)) > 0
       /\ optimal_choice(data["a3"], g) = {Some(c)}
  /\ \E g \in Contexts : optimal_choice(data["a3"], g) = {None}

\* C1: in a World with a trust-aware agent, while an episode is under way the
\* ledger has been refreshed exactly once, and every decision of the episode
\* read the divergence computed from the logs as the previous episode left
\* them.
C1_OneRefreshPerRound ==
  (world.agents # <<>> /\ has_sensitive(world.agents) /\ world.seen # <<>>) =>
    /\ world.refreshes = 1
    /\ \A i \in 1..Len(world.seen) :
         world.seen[i] = update_divergence(world.round_start, world.seen[i])

Max(a, b) == IF a > b THEN a ELSE b

\* C6: under ASR.EF with K = rand_trials, the n-th decision for a context is a
\* uniform-random pick exactly when n <= K and delegates to choose_optimal
\* otherwise, however decisions for other contexts are interleaved; the
\* countdown of each context is K minus its own random picks and never below 0.
C6_EpsilonFirst ==
  agent.name # "none" /\ agent.asr = "EF" =>
    LET K == agent.rand_trials
    IN  /\ IF agent.feat_perms # <<>>
             THEN \A i \in 1..Len(agent.feat_perms) :
                    agent.rand_trials_rem[i] = Max(K - agent.calls[i], 0)
             ELSE agent.rand_trials_rem = Max(K - agent.calls[1], 0)
        /\ last.op = "choose" =>
             /\ last.raised = "none"
             /\ (last.kind = "random") <=> (agent.calls[last.ctx] <= K)
             /\ (last.kind # "random") <=> (last.kind = "optimal")

\* C6 witness: with K = 2 and per-context countdowns, a context has had its
\* third decision, an optimal one, while the other context has had one random
\* pick and keeps one forced draw.
C6_Witness ==
  /\ agent.name # "none" /\ agent.asr = "EF" /\ agent.feat_perms # <<>>
  /\ agent.rand_trials = 2
  /\ last.op = "choose" /\ last.kind = "optimal"
  /\ \E i \in 1..2, j \in 1..2 :
       /\ last.ctx = i /\ agent.calls[i] = 3 /\ agent.rand_trials_rem[i] = 0
       /\ j # i /\ agent.calls[j] = 1 /\ agent.rand_trials_rem[j] = 1

RECURSIVE DecayN(_, _, _)
DecayN(x, cooling_rate, n) ==
  IF n = 0 THEN x ELSE DecayN((x * cooling_rate.milli) \div Milli, cooling_rate, n - 1)

\* The epsilon that governs the coin-flip of context i, None when the agent
\* holds none.
GoverningEpsilon(i) ==
  IF i \in 1..Len(agent.epsilon) THEN Some(agent.epsilon[i]) ELSE None

\* C7: under ASR.ED every decision decays the epsilon that governed it exactly
\* once, explore or exploit: after n decisions for a context (for the agent
\* when there are no features) that epsilon is the initial 1 times
\* cooling_rate^n.
C7_DecayOncePerDecision ==
  last.op = "choose" /\ agent.asr = "ED" =>
    \A i \in 1..Len(agent.calls) :
      GoverningEpsilon(i) = Some(DecayN(1 * Milli, agent.cooling_rate, agent.calls[i]))

\* C8: every call of choose returns an assignment of the action domain, and
\* one that did not explore under EG, EF or ED returns what choose_optimal
\* returns.
C8_ChooseReturnsAction ==
  last.op = "choose" =>
    /\ last.raised = "none"
    /\ last.value \in choose_random
    /\ (agent.asr \in {"EG", "EF", "ED"} /\ last.kind # "random") => last.kind = "optimal"

\* The largest of the samples drawn in one call of thompson_sample.
MaxSample(samples) == CHOOSE m \in {samples[i] : i \in 1..Len(samples)} :
                        \A i \in 1..Len(samples) : samples[i] <= m

\* C11: Thompson sampling returns an action whose sample is the maximum of the
\* round, and the list the return value is picked from holds every action of
\* maximal sample exactly once and no other action, so that the pick is
\* uniform among the tied actions; for the dataset-backed classes and for
\* AdjustAgent alike.
C11_ThompsonTieSet ==
  last.op = "choose" /\ last.kind = "thompson" =>
    LET samples == Val(last.ts).samples
        choices == Val(last.ts).choices
        top == MaxSample(samples)
    IN  /\ \E i \in 1..Len(act_perms) :
             samples[i] = top /\ last.value = Some(act_perms[i])
        /\ \A i \in 1..Len(act_perms) :
             CountObs(choices, act_perms[i]) = IF samples[i] = top THEN 1 ELSE 0

\* The terms of the product P(Y = y | R = r) P(R = r | S = s) P(S = s | action).
Terms(solve, action, y, sr) ==
  << solve[Query("Y", y, "R", sr[2])],
     solve[Query("R", sr[2], "S", sr[1])],
     solve[Query("S", sr[1], act_var, action[act_var])] >>

\* The pairs (s, r) whose product has no unknown term.
KnownPairs(solve, action, y) ==
  {sr \in SR : \A k \in 1..3 : ~IsNone(Terms(solve, action, y, sr)[k])}

\* total is a sum of products none of which has an unknown term, each counted
\* scale times: the products with an unknown term have added zero.
UnknownAddsZero(total, solve, action, y, scale) ==
  \E K \in SUBSET KnownPairs(solve, action, y) :
    total = scale * SumOver(K, [sr \in K |->
              LET t == Terms(solve, action, y, sr)
              IN  Prod3(Val(t[1]), Val(t[2]), Val(t[3]))])

\* The observations of the contributing agents consistent with the action and
\* the context.
LocalCounts(action) ==
  SumOver(DOMAIN data \ last.corrupted,
          [a \in DOMAIN data \ last.corrupted |->
             Len(Support(data[a], action, last.givens))])

\* C12: whatever the oracle answers, known or unknown, to each query,
\* AdjustAgent.choose_optimal and AdjustAgent.thompson_sample raise nothing
\* and return an action, and a product with an unknown term adds zero to the
\* expected value and to the Thompson alpha and beta.
C12_UnknownContributesZero ==
  last.op \in {"choose_optimal", "thompson_sample"} =>
    /\ last.raised = "none"
    /\ last.value \in choose_random
    /\ last.op = "choose_optimal" =>
         \A i \in 1..Len(act_perms) :
           UnknownAddsZero(last.ev[i], agent.solve, act_perms[i], 1, 1)
    /\ last.op = "thompson_sample" =>
         \A i \in 1..Len(act_perms) :
           /\ UnknownAddsZero(last.weights[i].alpha, agent.solve, act_perms[i], 1,
                              LocalCounts(act_perms[i]))
           /\ UnknownAddsZero(last.weights[i].beta, agent.solve, act_perms[i], 0,
                              LocalCounts(act_perms[i]))

\* C13: constructing an agent with an action-selection rule that is none of
\* the known ones fails at construction: the constructor raises, no agent
\* object with that rule exists, the agent is not in the ledger, and no call
\* of choose is made under that rule.
C13_UnknownRuleFailsAtConstruction ==
  /\ (last.op = "Agent.__init__" /\ last.asr \notin ASRs) =>
       /\ last.raised # "none"
       /\ last.agent \notin Registered
  /\ agent.name # "none" => agent.asr \in ASRs
  /\ last.op = "choose" => agent.asr \in ASRs

\* C14: under ASR.EG with epsilon = 0 every call of choose returns what
\* choose_optimal returns and makes no call of rng.random() for the
\* explore/exploit coin-flip.
C14_GreedyZeroNoCoinDraw ==
  (last.op = "choose" /\ agent.asr = "EG" /\ agent.epsilon = 0) =>
    /\ last.raised = "none"
    /\ last.kind = "optimal"
    /\ last.draws = 0

\* C15, for a ledger at its construction: a DataBank constructed without
\* initial data has no registered agent and an empty divergence matrix.
StartsEmpty ==
  (last.op = "DataBank.__init__" /\ ~last.explicit) =>
    /\ bank_dicts(last.bank).data = <<>>
    /\ bank_dicts(last.bank).divergence = <<>>

\* C15, for a step: add_agent or an append on one DataBank leaves the
\* registered agents, logs and divergence of every other DataBank as they were.
OthersUntouched ==
  \A j \in 1..Len(banks) :
    (last'.op \in {"DataBank.add_agent", "append"} /\ last'.bank # j) =>
      bank_dicts(j)' = bank_dicts(j)

\* C15: ledgers are isolated from one another: one constructed without
\* explicit initial data starts with no registered agents and an empty
\* divergence matrix, whatever was done to the ledgers constructed before, and
\* registering an agent or appending an observation in one ledger never
\* changes the registered agents, logs or divergence of another.
C15_LedgersIsolated == []StartsEmpty /\ [][OthersUntouched]_vars

====
